---- MODULE Spec2Model ----
(***************************************************************************)
(* A model of src/ModuleLoader.ts: the registry of modules, the graph      *)
(* walker (fetchModule / fetchAllDependencies / fetchResolvedDependency),  *)
(* the entry coordinator (addEntryModules / addManualChunks /              *)
(* assignManualChunks) and the batch quiescence loop                       *)
(* (awaitLoadModulesPromise).                                              *)
(*                                                                         *)
(* Every `await` of the source is a position of a task; the code between   *)
(* two awaits is one action (JavaScript runs it without interleaving).     *)
(***************************************************************************)
EXTENDS Integers, Sequences, FiniteSets, TLC

(***************************************************************************)
(* Bounds of the model.                                                    *)
(***************************************************************************)
\* number of addEntryModules calls in one run of the "entries" job
MaxBatches == 2
\* number of assignManualChunks calls in one run
MaxAssigns == 1

(***************************************************************************)
(* The input: the files the plugins and the file system offer.             *)
(***************************************************************************)
\* `undefined` importer of an entry (UnresolvedModule.importer)
NoImporter == ""

\* ids the resolve hooks can produce
Ids == {"/a", "/b", "/c", "/e1", "/e2", "/e3", "/m", "/n", "/p", "/q", "/x", "fs", "lodash"}

\* import specifiers found in module bodies
Specifiers == {"./a", "./c", "./c.js", "./missing", "fs", "lodash", "x"}

\* marker of a dynamic import whose argument is not a string literal
AstNode == "<node>"

\* manual chunk aliases
Aliases == {"a", "b"}

\* UTF-16 code units of every id (Array.prototype.sort compares them)
CodeUnits(id) ==
    CASE id = "/a" -> <<47, 97>>
      [] id = "/b" -> <<47, 98>>
      [] id = "/c" -> <<47, 99>>
      [] id = "/e1" -> <<47, 101, 49>>
      [] id = "/e2" -> <<47, 101, 50>>
      [] id = "/e3" -> <<47, 101, 51>>
      [] id = "/m" -> <<47, 109>>
      [] id = "/n" -> <<47, 110>>
      [] id = "/p" -> <<47, 112>>
      [] id = "/q" -> <<47, 113>>
      [] id = "/x" -> <<47, 120>>
      [] id = "fs" -> <<102, 115>>
      [] id = "lodash" -> <<108, 111, 100, 97, 115, 104>>
      [] OTHER -> <<>>

\* raw results of a resolveId / resolveDynamicImport hook
RawNull == [type |-> "null", id |-> "", external |-> FALSE]
RawFalse == [type |-> "false", id |-> "", external |-> FALSE]
RawString(id) == [type |-> "string", id |-> id, external |-> FALSE]
RawObject(id, ext) == [type |-> "object", id |-> id, external |-> ext]

\* utils/resolveId: the answer of the resolveId hooks and the default resolver
ResolveIdHook(source, importer) ==
    CASE importer = NoImporter /\ source = "a" -> RawString("/a")
      [] importer = NoImporter /\ source = "b" -> RawString("/b")
      [] importer = NoImporter /\ source = "e1" -> RawString("/e1")
      [] importer = NoImporter /\ source = "e2" -> RawString("/e2")
      [] importer = NoImporter /\ source = "e3" -> RawObject("/e3", FALSE)
      [] importer = NoImporter /\ source = "m" -> RawString("/m")
      [] importer = NoImporter /\ source = "n" -> RawString("/n")
      [] importer = NoImporter /\ source = "p" -> RawString("/p")
      [] importer = NoImporter /\ source = "q" -> RawString("/q")
      [] importer = NoImporter /\ source = "x" -> RawString("/x")
      [] importer = NoImporter /\ source = "ext" -> RawObject("/x", TRUE)
      [] importer = NoImporter /\ source = "off" -> RawFalse
      [] importer = "/a" /\ source = "./c" -> RawString("/c")
      [] importer = "/a" /\ source = "./c.js" -> RawString("/c")
      [] importer = "/b" /\ source = "./c" -> RawString("/c")
      [] importer = "/c" /\ source = "./a" -> RawString("/a")
      [] importer = "/m" /\ source = "x" -> RawObject("/x", TRUE)
      [] OTHER -> RawNull

\* the `external` option: ids matched by this.isExternal
ExternalOption == {"fs"}

\* module.sources after setSource: the static import specifiers of a module
Sources(id) ==
    CASE id = "/a" -> {"./c", "./c.js"}
      [] id = "/b" -> {"./c"}
      [] id = "/c" -> {"./a"}
      [] id = "/m" -> {"x", "lodash"}
      [] id = "/n" -> {"./missing"}
      [] id = "/p" -> {"fs"}
      [] OTHER -> {}

\* module.dynamicImports after setSource: argument and the answer of the
\* resolveDynamicImport hook for it
DynamicImports(id) ==
    CASE id = "/b" -> << [argument |-> "./c", hook |-> RawNull] >>
      [] id = "/p" -> << [argument |-> AstNode, hook |-> RawString("/q")] >>
      [] OTHER -> << >>

\* module.exports after setSource: the names a module declares
Exports(id) ==
    CASE id = "/a" -> {"default", "foo"}
      [] id = "/c" -> {"bar", "foo"}
      [] id = "/b" -> {"default"}
      [] id = "/m" -> {"baz"}
      [] id = "/x" -> {"qux"}
      [] OTHER -> {}

\* module.exportAllSources after setSource, in iteration order
ExportAllSources(id) ==
    CASE id = "/a" -> <<"./c", "./c.js">>
      [] id = "/b" -> <<"./c">>
      [] id = "/c" -> <<"./a">>
      [] id = "/m" -> <<"x">>
      [] OTHER -> <<>>

ExportNames == {"bar", "baz", "default", "foo", "qux"}

\* outcome of the load hook / readFile / transform for an id
LoadResults(id) ==
    CASE id = "/n" -> {"code", "throw"}
      [] OTHER -> {"code"}

(***************************************************************************)
(* Pure helpers.                                                           *)
(***************************************************************************)
Min(x, y) == IF x < y THEN x ELSE y

RECURSIVE UnitsLess(_, _)
\* comparison of two strings by their UTF-16 code units
UnitsLess(u, v) ==
    IF v = <<>> THEN FALSE
    ELSE IF u = <<>> THEN TRUE
    ELSE IF Head(u) # Head(v) THEN Head(u) < Head(v)
    ELSE UnitsLess(Tail(u), Tail(v))

LexLess(x, y) == UnitsLess(CodeUnits(x), CodeUnits(y))

RECURSIVE InsertSorted(_, _)
InsertSorted(list, x) ==
    IF list = <<>> THEN <<x>>
    ELSE IF LexLess(x, Head(list)) THEN <<x>> \o list
    ELSE <<Head(list)>> \o InsertSorted(Tail(list), x)

RECURSIVE SortIds(_)
\* Array.prototype.sort() without a comparator, on an array of ids
SortIds(list) ==
    IF list = <<>> THEN <<>>
    ELSE InsertSorted(SortIds(Tail(list)), Head(list))

\* the push without the sort
PushOnly(list, id) == Append(list, id)

\* resolution.importers.push(module.id); resolution.importers.sort()
PushAndSort(list, id) == SortIds(Append(list, id))

\* utils/path isRelative
IsRelative(source) == source \in {"./a", "./c", "./c.js", "./missing", "/a", "/b", "/c"}

\* utils/path resolve(importer, '..', source) and resolve(source)
ResolvePath(importer, source) ==
    CASE source = "./a" -> "/a"
      [] source = "./c" -> "/c"
      [] source = "./c.js" -> "/c.js"
      [] source = "./missing" -> "/missing"
      [] OTHER -> source

NormalizeRelativeExternalId(source, importer) ==
    IF IsRelative(source) THEN ResolvePath(importer, source) ELSE source

\* this.isExternal, the matcher getIdMatcher builds from a list of strings
IsExternal(id) == id \in ExternalOption

\* a ResolvedId (moduleSideEffects and syntheticNamedExports left out) and
\* the values that stand for `null` and for an unset resolvedIds entry
ResolvedId(id, ext) == [id |-> id, external |-> ext]
NullResolution == [id |-> "<null>", external |-> FALSE]
Unset == [id |-> "<unset>", external |-> FALSE]

NormalizeResolveIdResult(raw, importer, source) ==
    IF raw.type = "object" THEN ResolvedId(raw.id, raw.external)
    ELSE IF raw.type = "string"
    THEN IF IsExternal(raw.id)
         THEN ResolvedId(NormalizeRelativeExternalId(raw.id, importer), TRUE)
         ELSE ResolvedId(raw.id, FALSE)
    ELSE LET id == NormalizeRelativeExternalId(source, importer)
         IN  IF raw.type # "false" /\ ~IsExternal(id)
             THEN NullResolution
             ELSE ResolvedId(id, TRUE)

\* the async method resolveId of the loader
ThisResolveId(source, importer) ==
    NormalizeResolveIdResult(
        IF IsExternal(source) THEN RawFalse ELSE ResolveIdHook(source, importer),
        importer, source)

\* handleResolveId with every unresolved import fatal
HandleResolveIdStrict(resolved, source, importer) ==
    IF resolved = NullResolution
    THEN [error |-> "UNRESOLVED_IMPORT", warning |-> "", resolved |-> NullResolution]
    ELSE [error |-> "", warning |-> "", resolved |-> resolved]

\* handleResolveId (lines 421-443)
HandleResolveId(resolved, source, importer) ==
    IF resolved = NullResolution
    THEN IF IsRelative(source)
         THEN [error |-> "UNRESOLVED_IMPORT", warning |-> "", resolved |-> NullResolution]
         ELSE [error |-> "", warning |-> "UNRESOLVED_IMPORT_TREATED_AS_EXTERNAL",
               resolved |-> ResolvedId(source, TRUE)]
    ELSE [error |-> "", warning |-> "", resolved |-> resolved]

(***************************************************************************)
(* The calls a build makes.  A job names the part of the file tree a run   *)
(* bundles; its calls are the candidates of that run.                      *)
(***************************************************************************)
Jobs == {"entries", "graph", "kinds", "chunks"}

\* an UnresolvedModule of addEntryModules (importer undefined), or an id of
\* addManualChunks together with its alias
Item(id, alias) == [id |-> id, alias |-> alias]

\* arguments of addEntryModules: unresolvedEntryModules and isUserDefined
EntryCalls(j) ==
    CASE j = "entries" ->
            { [items |-> <<Item("e1", ""), Item("e2", "")>>, isUserDefined |-> TRUE],
              [items |-> <<Item("e3", "")>>, isUserDefined |-> FALSE] }
      [] j = "graph" ->
            { [items |-> <<Item("a", ""), Item("b", "")>>, isUserDefined |-> TRUE],
              [items |-> <<Item("b", ""), Item("b", "")>>, isUserDefined |-> TRUE] }
      [] j = "kinds" ->
            { [items |-> <<Item("m", ""), Item("x", "")>>, isUserDefined |-> TRUE],
              [items |-> <<Item("n", "")>>, isUserDefined |-> TRUE] }
      [] j = "chunks" ->
            { [items |-> <<Item("ext", ""), Item("off", ""), Item("nowhere", "")>>,
               isUserDefined |-> TRUE] }
      [] OTHER -> {}

\* arguments of addManualChunks: the alias -> ids record, in key order
ChunkCalls(j) ==
    CASE j = "chunks" ->
            { << [alias |-> "a", ids |-> <<"p">>] >>,
              << [alias |-> "b", ids |-> <<"p">>] >>,
              << [alias |-> "b", ids |-> <<"off">>] >> }
      [] OTHER -> {}

\* the getManualChunk functions handed to assignManualChunks
ManualChunkFns(j) ==
    CASE j = "chunks" -> {"all-a", "p-b"}
      [] OTHER -> {}

\* getManualChunk(module.id, api): an alias, or "" for no alias
GetManualChunk(fn, id) ==
    CASE fn = "all-a" -> "a"
      [] fn = "p-b" /\ id = "/p" -> "b"
      [] OTHER -> ""

RECURSIVE UnresolvedManualChunks(_)
\* the loops of addManualChunks that flatten the record into {id, alias} pairs
UnresolvedManualChunks(manualChunks) ==
    IF manualChunks = <<>> THEN <<>>
    ELSE LET first == Head(manualChunks)
         IN  [i \in 1..Len(first.ids) |-> Item(first.ids[i], first.alias)]
             \o UnresolvedManualChunks(Tail(manualChunks))

\* the number of addEntryModules / addManualChunks calls of a run
MaxCalls(j) ==
    CASE j = "entries" -> MaxBatches
      [] j = "graph" -> 1
      [] OTHER -> 2

(***************************************************************************)
(* The state.                                                              *)
(***************************************************************************)
VARIABLES
    job,                      \* the job of this run
    modulesById,              \* id -> "none" | "internal" | "external": the object registered
    registryKeys,             \* the keys of modulesById in insertion order
    registered,               \* history: the objects ever set under an id
    loadState,                \* position of the fetchModule call that created Module id
    loadError,                \* the error that call rejected with
    loadCount,                \* history: how often addModuleSource was started for id
    isEntryPoint,
    isUserDefinedEntryPoint,
    manualChunkAlias,         \* "" stands for null
    resolvedIds,              \* module.resolvedIds
    resolvedIdsWrites,        \* history: resolutions stored in module.resolvedIds[s]
    importers,                \* importers of the Module / ExternalModule object <<kind, id>>
    dynamicImporters,
    exportsAll,               \* module.exportsAll, "" for a missing name
    depTask,                  \* the async callbacks of fetchAllDependencies over module.sources
    dynTask,                  \* the async callbacks over module.dynamicImports
    batches,                  \* the addEntryModules / addManualChunks calls
    latestLoadModulesPromise, \* number of the latest combined promise
    failedOrder,              \* the batches in the order their promises rejected
    indexedEntryModules,
    nextEntryModuleIndex,
    manualChunkModules,       \* alias -> list of module ids (a list is created by its first push)
    warnings,                 \* graph.warn calls
    assigns                   \* the assignManualChunks calls made, with their outcome

registryVars == <<modulesById, registryKeys, registered, loadState, loadCount, isEntryPoint>>
moduleVars == <<loadError, isUserDefinedEntryPoint, manualChunkAlias, resolvedIds,
                resolvedIdsWrites, importers, dynamicImporters, exportsAll>>
taskVars == <<depTask, dynTask>>
entryVars == <<batches, latestLoadModulesPromise, failedOrder, indexedEntryModules,
               nextEntryModuleIndex>>
chunkVars == <<manualChunkModules, assigns>>
vars == <<job, registryVars, moduleVars, taskVars, entryVars, chunkVars, warnings>>

Kinds == {"internal", "external"}
Objects == Kinds \X Ids

\* a task that has not started, and the states of a started one
NoTask == [pc |-> "none", kind |-> "", id |-> "", error |-> ""]
Task(pc, kind, id, error) == [pc |-> pc, kind |-> kind, id |-> id, error |-> error]

Init ==
    /\ job \in Jobs
    /\ modulesById = [id \in Ids |-> "none"]
    /\ registryKeys = <<>>
    /\ registered = [id \in Ids |-> <<>>]
    /\ loadState = [id \in Ids |-> "none"]
    /\ loadError = [id \in Ids |-> ""]
    /\ loadCount = [id \in Ids |-> 0]
    /\ isEntryPoint = [id \in Ids |-> FALSE]
    /\ isUserDefinedEntryPoint = [id \in Ids |-> FALSE]
    /\ manualChunkAlias = [id \in Ids |-> ""]
    /\ resolvedIds = [id \in Ids |-> [s \in Specifiers |-> Unset]]
    /\ resolvedIdsWrites = [id \in Ids |-> [s \in Specifiers |-> <<>>]]
    /\ importers = [o \in Objects |-> <<>>]
    /\ dynamicImporters = [o \in Objects |-> <<>>]
    /\ exportsAll = [id \in Ids |-> [n \in ExportNames |-> ""]]
    /\ depTask = [id \in Ids |-> [s \in Specifiers |-> NoTask]]
    /\ dynTask = [id \in Ids |-> <<>>]
    /\ batches = <<>>
    /\ latestLoadModulesPromise = 0
    /\ failedOrder = <<>>
    /\ indexedEntryModules = <<>>
    /\ nextEntryModuleIndex = 0
    /\ manualChunkModules = [alias \in Aliases |-> <<>>]
    /\ warnings = {}
    /\ assigns = <<>>

(***************************************************************************)
(* fetchModule and fetchResolvedDependency: the part that runs before the  *)
(* first await.  A Module object is named by its id: fetchModule is the    *)
(* only place that constructs one, and loadCount counts the constructions. *)
(***************************************************************************)
\* a registry check that only knows the modules whose load has finished
ExistingIsLoadedModule(id) == modulesById[id] = "internal" /\ loadState[id] = "done"

\* existingModule instanceof Module
ExistingIsModule(id) == modulesById[id] = "internal"

\* this.modulesById.has(id)
RegistryHas(id) == modulesById[id] # "none"

\* this.modulesById.set(id, object): a new key goes to the end of the Map
RegistrySet(id, kind) ==
    /\ modulesById' = [modulesById EXCEPT ![id] = kind]
    /\ registered' = [registered EXCEPT ![id] = Append(@, kind)]
    /\ registryKeys' = IF RegistryHas(id) THEN registryKeys ELSE Append(registryKeys, id)

\* fetchModule up to its first await (lines 354-369)
FetchModule(id, isEntry) ==
    IF ExistingIsModule(id)
    THEN /\ isEntryPoint' = [isEntryPoint EXCEPT ![id] = @ \/ isEntry]
         /\ UNCHANGED <<modulesById, registryKeys, registered, loadState, loadCount>>
    ELSE /\ RegistrySet(id, "internal")
         /\ isEntryPoint' = [isEntryPoint EXCEPT ![id] = isEntry]
         /\ loadState' = [loadState EXCEPT ![id] = "source"]
         /\ loadCount' = [loadCount EXCEPT ![id] = @ + 1]

\* a fetchModule that hands every caller the promise of the load in flight
FetchModuleTaskInFlight(id) == Task("fetchOwn", "internal", id, "")

\* the promise fetchModule returns: already resolved with the existing
\* module, or the one of the load this call started
FetchModuleTask(id) ==
    IF ExistingIsModule(id)
    THEN Task("fetchReady", "internal", id, "")
    ELSE Task("fetchOwn", "internal", id, "")

\* fetchResolvedDependency (lines 397-418)
FetchResolvedDependency(resolvedId) ==
    IF resolvedId.external
    THEN /\ IF ~RegistryHas(resolvedId.id)
            THEN RegistrySet(resolvedId.id, "external")
            ELSE UNCHANGED <<modulesById, registryKeys, registered>>
         /\ UNCHANGED <<loadState, loadCount, isEntryPoint>>
    ELSE FetchModule(resolvedId.id, FALSE)

\* fetchResolvedDependency without the test of line 406
FetchResolvedDependencyTaskUnchecked(resolvedId) ==
    IF resolvedId.external
    THEN Task("fetchReady", "external", resolvedId.id, "")
    ELSE FetchModuleTask(resolvedId.id)

\* what the caller of fetchResolvedDependency gets: a thrown error or a promise
FetchResolvedDependencyTask(resolvedId) ==
    IF resolvedId.external
    THEN IF ExistingIsModule(resolvedId.id)
         THEN Task("failed", "", "", "INTERNAL_ID_CANNOT_BE_EXTERNAL")
         ELSE Task("fetchReady", "external", resolvedId.id, "")
    ELSE FetchModuleTask(resolvedId.id)

(***************************************************************************)
(* addModuleSource and the start of fetchAllDependencies.                  *)
(***************************************************************************)
\* lines 242-282 and 312-345 up to the first await of every callback; the
\* resolvedIds of a Module just constructed are empty, so line 319 reads
\* undefined and every static callback awaits this.resolveId
AddModuleSourceDone(id) ==
    /\ loadState[id] = "source"
    /\ \E result \in LoadResults(id) :
          IF result = "code"
          THEN /\ loadState' = [loadState EXCEPT ![id] = "deps"]
               /\ depTask' = [depTask EXCEPT ![id] =
                     [s \in Specifiers |->
                        IF s \in Sources(id) THEN Task("resolving", "", "", "") ELSE NoTask]]
               /\ dynTask' = [dynTask EXCEPT ![id] =
                     [i \in 1..Len(DynamicImports(id)) |-> Task("hook", "", "", "")]]
               /\ UNCHANGED loadError
          ELSE /\ loadState' = [loadState EXCEPT ![id] = "failed"]
               /\ loadError' = [loadError EXCEPT ![id] =
                     IF result = "bad" THEN "BAD_LOADER" ELSE "LOAD_ERROR"]
               /\ UNCHANGED taskVars
    /\ UNCHANGED <<job, modulesById, registryKeys, registered, loadCount, isEntryPoint,
                   isUserDefinedEntryPoint, manualChunkAlias, resolvedIds, resolvedIdsWrites,
                   importers, dynamicImporters, exportsAll, entryVars, chunkVars, warnings>>

\* the resumption of a static callback after `await this.resolveId` (lines
\* 318-321): store the resolution, call fetchResolvedDependency
StaticResolved(id, source) ==
    /\ depTask[id][source].pc = "resolving"
    /\ LET handled == HandleResolveId(ThisResolveId(source, id), source, id)
       IN  IF handled.error # ""
           THEN /\ depTask' = [depTask EXCEPT ![id][source] = Task("failed", "", "", handled.error)]
                /\ UNCHANGED <<registryVars, resolvedIds, resolvedIdsWrites, warnings>>
           ELSE /\ resolvedIds' = [resolvedIds EXCEPT ![id][source] = handled.resolved]
                /\ resolvedIdsWrites' =
                      [resolvedIdsWrites EXCEPT ![id][source] = Append(@, handled.resolved)]
                /\ warnings' = IF handled.warning = "" THEN warnings
                               ELSE warnings \cup {<<handled.warning, source, id>>}
                /\ FetchResolvedDependency(handled.resolved)
                /\ depTask' = [depTask EXCEPT ![id][source] =
                                  FetchResolvedDependencyTask(handled.resolved)]
    /\ UNCHANGED <<job, loadError, isUserDefinedEntryPoint, manualChunkAlias, importers,
                   dynamicImporters, exportsAll, dynTask, entryVars, chunkVars>>

\* whether the promise a task awaits is settled
Settled(task) ==
    \/ task.pc = "fetchReady"
    \/ task.pc = "fetchOwn" /\ loadState[task.id] \in {"done", "failed"}

\* that promise is rejected
Rejected(task) == task.pc = "fetchOwn" /\ loadState[task.id] = "failed"

\* the resumption after `await this.fetchResolvedDependency` (lines 322-323)
StaticFetched(id, source) ==
    LET task == depTask[id][source]
    IN  /\ Settled(task)
        /\ IF Rejected(task)
           THEN /\ depTask' = [depTask EXCEPT ![id][source] =
                                  Task("failed", "", "", loadError[task.id])]
                /\ UNCHANGED importers
           ELSE /\ importers' = [importers EXCEPT ![<<task.kind, task.id>>] = PushAndSort(@, id)]
                /\ depTask' = [depTask EXCEPT ![id][source] = Task("done", task.kind, task.id, "")]
        /\ UNCHANGED <<job, registryVars, loadError, isUserDefinedEntryPoint, manualChunkAlias,
                       resolvedIds, resolvedIdsWrites, dynamicImporters, exportsAll, dynTask,
                       entryVars, chunkVars, warnings>>

(***************************************************************************)
(* The callbacks of fetchAllDependencies over module.dynamicImports.       *)
(***************************************************************************)
\* resolveDynamicImport returns a ResolvedId, after the warning of
\* handleResolveId, or throws its error; the callback of line 325 resumes
\* from its await in a later turn
DynamicReturn(id, i, handled) ==
    IF handled.error # ""
    THEN /\ dynTask' = [dynTask EXCEPT ![id][i] = Task("failed", "", "", handled.error)]
         /\ UNCHANGED warnings
    ELSE /\ warnings' = IF handled.warning = "" THEN warnings
                        ELSE warnings \cup {<<handled.warning, DynamicImports(id)[i].argument, id>>}
         /\ dynTask' = [dynTask EXCEPT ![id][i] =
                           Task("returned",
                                IF handled.resolved.external THEN "external" ELSE "internal",
                                handled.resolved.id, "")]

Resolved(resolvedId) == [error |-> "", warning |-> "", resolved |-> resolvedId]

\* resolveDynamicImport after the resolveDynamicImport hook (lines 527-549)
DynamicHookDone(id, i) ==
    /\ i \in DOMAIN dynTask[id]
    /\ dynTask[id][i].pc = "hook"
    /\ LET specifier == DynamicImports(id)[i].argument
           resolution == DynamicImports(id)[i].hook
       IN  IF specifier = AstNode
           THEN IF resolution.type = "string"
                THEN /\ dynTask' = [dynTask EXCEPT ![id][i] =
                                       Task("returned", "string", resolution.id, "")]
                     /\ UNCHANGED warnings
                ELSE IF resolution.type # "object"
                THEN /\ dynTask' = [dynTask EXCEPT ![id][i] = Task("returned", "null", "", "")]
                     /\ UNCHANGED warnings
                ELSE DynamicReturn(id, i, Resolved(ResolvedId(resolution.id, resolution.external)))
           ELSE IF resolution.type = "null"
                THEN IF resolvedIds[id][specifier] # Unset
                     THEN DynamicReturn(id, i, Resolved(resolvedIds[id][specifier]))
                     ELSE /\ dynTask' = [dynTask EXCEPT ![id][i] = Task("resolving", "", "", "")]
                          /\ UNCHANGED warnings
                ELSE DynamicReturn(id, i,
                        HandleResolveId(NormalizeResolveIdResult(resolution, id, specifier),
                                        specifier, id))
    /\ UNCHANGED <<job, registryVars, moduleVars, depTask, entryVars, chunkVars>>

\* resolveDynamicImport after `await this.resolveId` of line 543: store the
\* resolution and return it
DynamicResolved(id, i) ==
    /\ i \in DOMAIN dynTask[id]
    /\ dynTask[id][i].pc = "resolving"
    /\ LET specifier == DynamicImports(id)[i].argument
           handled == HandleResolveId(ThisResolveId(specifier, id), specifier, id)
       IN  /\ DynamicReturn(id, i, handled)
           /\ IF handled.error # ""
              THEN UNCHANGED <<resolvedIds, resolvedIdsWrites>>
              ELSE /\ resolvedIds' = [resolvedIds EXCEPT ![id][specifier] = handled.resolved]
                   /\ resolvedIdsWrites' =
                         [resolvedIdsWrites EXCEPT ![id][specifier] = Append(@, handled.resolved)]
    /\ UNCHANGED <<job, registryVars, loadError, isUserDefinedEntryPoint, manualChunkAlias,
                   importers, dynamicImporters, exportsAll, depTask, entryVars, chunkVars>>

\* the callback resumes after `await this.resolveDynamicImport` (lines
\* 331-339): null and a string end it, a ResolvedId goes to
\* fetchResolvedDependency
DynamicFetch(id, i) ==
    /\ i \in DOMAIN dynTask[id]
    /\ dynTask[id][i].pc = "returned"
    /\ LET task == dynTask[id][i]
           resolvedId == ResolvedId(task.id, task.kind = "external")
       IN  IF task.kind \in {"null", "string"}
           THEN /\ dynTask' = [dynTask EXCEPT ![id][i] = Task("done", task.kind, task.id, "")]
                /\ UNCHANGED registryVars
           ELSE /\ FetchResolvedDependency(resolvedId)
                /\ dynTask' = [dynTask EXCEPT ![id][i] = FetchResolvedDependencyTask(resolvedId)]
    /\ UNCHANGED <<job, moduleVars, depTask, entryVars, chunkVars, warnings>>

\* the resumption after `await this.fetchResolvedDependency` (lines 335-341)
DynamicFetched(id, i) ==
    /\ i \in DOMAIN dynTask[id]
    /\ LET task == dynTask[id][i]
       IN  /\ Settled(task)
           /\ IF Rejected(task)
              THEN /\ dynTask' = [dynTask EXCEPT ![id][i] =
                                     Task("failed", "", "", loadError[task.id])]
                   /\ UNCHANGED dynamicImporters
              ELSE /\ dynamicImporters' =
                         [dynamicImporters EXCEPT ![<<task.kind, task.id>>] = PushAndSort(@, id)]
                   /\ dynTask' = [dynTask EXCEPT ![id][i] = Task("done", task.kind, task.id, "")]
    /\ UNCHANGED <<job, registryVars, loadError, isUserDefinedEntryPoint, manualChunkAlias,
                   resolvedIds, resolvedIdsWrites, importers, exportsAll, depTask,
                   entryVars, chunkVars, warnings>>

(***************************************************************************)
(* The end of fetchModule: Promise.all of the callbacks, then the export   *)
(* linking of lines 372-388.                                               *)
(***************************************************************************)
TasksOf(id) ==
    {depTask[id][s] : s \in Sources(id)} \cup {dynTask[id][i] : i \in DOMAIN dynTask[id]}

\* lines 372-376: the module's own exports
OwnExportsAll(id) ==
    [name \in ExportNames |-> IF name \in Exports(id) /\ name # "default" THEN id ELSE ""]

\* the body of the loop of lines 377-388 for one source
LinkExportAll(id, own, source) ==
    LET target == resolvedIds[id][source].id
    IN  IF modulesById[target] = "external" THEN own
        ELSE [name \in ExportNames |->
                IF exportsAll[target][name] # "" /\ own[name] = ""
                THEN exportsAll[target][name]
                ELSE own[name]]

\* the NAMESPACE_CONFLICT warnings of that body
LinkConflicts(id, own, source) ==
    LET target == resolvedIds[id][source].id
    IN  IF modulesById[target] = "external" THEN {}
        ELSE {<<"NAMESPACE_CONFLICT", name, id>> :
                 name \in {n \in ExportNames : exportsAll[target][n] # "" /\ own[n] # ""}}

RECURSIVE LinkAll(_, _, _)
LinkAll(id, own, sources) ==
    IF sources = <<>> THEN own
    ELSE LinkAll(id, LinkExportAll(id, own, Head(sources)), Tail(sources))

RECURSIVE ConflictsAll(_, _, _)
ConflictsAll(id, own, sources) ==
    IF sources = <<>> THEN {}
    ELSE LinkConflicts(id, own, Head(sources))
         \cup ConflictsAll(id, LinkExportAll(id, own, Head(sources)), Tail(sources))

\* fetchAllDependencies resolved: link the exports and resolve with the module
FetchModuleDone(id) ==
    /\ loadState[id] = "deps"
    /\ \A task \in TasksOf(id) : task.pc = "done"
    /\ loadState' = [loadState EXCEPT ![id] = "done"]
    /\ exportsAll' = [exportsAll EXCEPT ![id] =
                         LinkAll(id, OwnExportsAll(id), ExportAllSources(id))]
    /\ warnings' = warnings \cup ConflictsAll(id, OwnExportsAll(id), ExportAllSources(id))
    /\ UNCHANGED <<job, modulesById, registryKeys, registered, loadCount, isEntryPoint,
                   loadError, isUserDefinedEntryPoint, manualChunkAlias, resolvedIds,
                   resolvedIdsWrites, importers, dynamicImporters, taskVars, entryVars,
                   chunkVars>>

\* one callback rejected: Promise.all rejects and so does fetchModule
FetchModuleFailed(id) ==
    /\ loadState[id] = "deps"
    /\ \E task \in TasksOf(id) :
          /\ task.pc = "failed"
          /\ loadError' = [loadError EXCEPT ![id] = task.error]
    /\ loadState' = [loadState EXCEPT ![id] = "failed"]
    /\ UNCHANGED <<job, modulesById, registryKeys, registered, loadCount, isEntryPoint,
                   isUserDefinedEntryPoint, manualChunkAlias, resolvedIds, resolvedIdsWrites,
                   importers, dynamicImporters, exportsAll, taskVars, entryVars, chunkVars,
                   warnings>>

(***************************************************************************)
(* Manual chunks.                                                          *)
(***************************************************************************)
\* the loader fields addModuleToManualChunk works on, and the error it threw
ChunkState(aliasOf, modulesOf, error) ==
    [manualChunkAlias |-> aliasOf, manualChunkModules |-> modulesOf, error |-> error]

\* addModuleToManualChunk without the check of line 285
AddModuleToManualChunkUnchecked(st, alias, id) ==
    ChunkState([st.manualChunkAlias EXCEPT ![id] = alias],
               [st.manualChunkModules EXCEPT ![alias] = Append(@, id)],
               "")

\* addModuleToManualChunk without the push of line 292
AddModuleToManualChunkAliasOnly(st, alias, id) ==
    IF st.manualChunkAlias[id] # "" /\ st.manualChunkAlias[id] # alias
    THEN ChunkState(st.manualChunkAlias, st.manualChunkModules, "CANNOT_ASSIGN_MODULE_TO_CHUNK")
    ELSE ChunkState([st.manualChunkAlias EXCEPT ![id] = alias], st.manualChunkModules, "")

\* addModuleToManualChunk (lines 284-293)
AddModuleToManualChunk(st, alias, id) ==
    IF st.manualChunkAlias[id] # "" /\ st.manualChunkAlias[id] # alias
    THEN ChunkState(st.manualChunkAlias, st.manualChunkModules, "CANNOT_ASSIGN_MODULE_TO_CHUNK")
    ELSE ChunkState([st.manualChunkAlias EXCEPT ![id] = alias],
                    [st.manualChunkModules EXCEPT ![alias] = Append(@, id)],
                    "")

RECURSIVE AddAllToManualChunks(_, _)
\* a loop of addModuleToManualChunk calls that ends at the first throw;
\* pairs is the list of {alias, id} still to assign
AddAllToManualChunks(st, pairs) ==
    IF pairs = <<>> \/ st.error # "" THEN st
    ELSE AddAllToManualChunks(AddModuleToManualChunk(st, Head(pairs).alias, Head(pairs).id),
                              Tail(pairs))

RECURSIVE AssignPairs(_, _)
\* the calls assignManualChunks makes: for every internal module of the
\* registry, in Map order, the alias getManualChunk returns, if it is a string
AssignPairs(fn, keys) ==
    IF keys = <<>> THEN <<>>
    ELSE (IF modulesById[Head(keys)] = "internal" /\ GetManualChunk(fn, Head(keys)) # ""
          THEN << Item(Head(keys), GetManualChunk(fn, Head(keys))) >>
          ELSE << >>)
         \o AssignPairs(fn, Tail(keys))

\* assignManualChunks (lines 212-225); it is synchronous
AssignManualChunks(fn) ==
    /\ Len(assigns) < MaxAssigns
    /\ fn \in ManualChunkFns(job)
    /\ LET st == AddAllToManualChunks(ChunkState(manualChunkAlias, manualChunkModules, ""),
                                      AssignPairs(fn, registryKeys))
       IN  /\ manualChunkAlias' = st.manualChunkAlias
           /\ manualChunkModules' = st.manualChunkModules
           /\ assigns' = Append(assigns, [fn |-> fn, error |-> st.error])
    /\ UNCHANGED <<job, registryVars, loadError, isUserDefinedEntryPoint, resolvedIds,
                   resolvedIdsWrites, importers, dynamicImporters, exportsAll, taskVars,
                   entryVars, warnings>>

(***************************************************************************)
(* The entry coordinator.                                                  *)
(***************************************************************************)
\* a call of addEntryModules or addManualChunks with its promises: tasks are
\* the loadEntryModule calls, state is the promise of Promise.all(...).then,
\* callPc the position of the call inside awaitLoadModulesPromise;
\* loadingAtSubmit is history: the earlier batches still loading at the call
Batch(type, items, isUserDefined, firstIndex, number) ==
    [type |-> type, items |-> items, isUserDefined |-> isUserDefined,
     firstEntryModuleIndex |-> firstIndex,
     tasks |-> [i \in 1..Len(items) |-> Task("resolving", "", "", "")],
     state |-> "loading", error |-> "",
     callPc |-> "polling", startingPromise |-> number, callError |-> "",
     entryModules |-> <<>>,
     loadingAtSubmit |-> {k \in DOMAIN batches : batches[k].state = "loading"}]

\* addEntryModules up to its first await (lines 141-147, 178, 296-303)
AddEntryModules(call) ==
    /\ Len(batches) < MaxCalls(job)
    /\ call \in EntryCalls(job)
    /\ nextEntryModuleIndex' = nextEntryModuleIndex + Len(call.items)
    /\ batches' = Append(batches, Batch("entries", call.items, call.isUserDefined,
                                        nextEntryModuleIndex, Len(batches) + 1))
    /\ latestLoadModulesPromise' = Len(batches) + 1
    /\ UNCHANGED <<job, registryVars, moduleVars, taskVars, failedOrder, indexedEntryModules,
                   chunkVars, warnings>>

\* addManualChunks up to its first await (lines 187-196, 296-303)
AddManualChunks(manualChunks) ==
    /\ Len(batches) < MaxCalls(job)
    /\ manualChunks \in ChunkCalls(job)
    /\ batches' = Append(batches, Batch("chunks", UnresolvedManualChunks(manualChunks), FALSE,
                                        nextEntryModuleIndex, Len(batches) + 1))
    /\ latestLoadModulesPromise' = Len(batches) + 1
    /\ UNCHANGED <<job, registryVars, moduleVars, taskVars, failedOrder, indexedEntryModules,
                   nextEntryModuleIndex, chunkVars, warnings>>

SetTask(b, i, task) == batches' = [batches EXCEPT ![b].tasks[i] = task]

\* the test of lines 457-460 that only knows `false`
EntryIsFalse(resolveIdResult) == resolveIdResult.type = "false"

\* the test of lines 457-460: `false`, or an object with external set
EntryIsExternal(resolveIdResult) ==
    \/ resolveIdResult.type = "false"
    \/ resolveIdResult.type = "object" /\ resolveIdResult.external

\* loadEntryModule after `await resolveId` (lines 457-469)
EntryResolved(b, i) ==
    /\ b \in DOMAIN batches
    /\ i \in DOMAIN batches[b].tasks
    /\ batches[b].tasks[i].pc = "resolving"
    /\ LET resolveIdResult == ResolveIdHook(batches[b].items[i].id, NoImporter)
       IN  IF EntryIsExternal(resolveIdResult)
           THEN /\ SetTask(b, i, Task("failed", "", "", "ENTRY_CANNOT_BE_EXTERNAL"))
                /\ UNCHANGED registryVars
           ELSE IF resolveIdResult.type = "null"
           THEN /\ SetTask(b, i, Task("failed", "", "", "UNRESOLVED_ENTRY"))
                /\ UNCHANGED registryVars
           ELSE /\ SetTask(b, i, FetchModuleTask(resolveIdResult.id))
                /\ FetchModule(resolveIdResult.id, batches[b].type = "entries")
    /\ UNCHANGED <<job, moduleVars, taskVars, latestLoadModulesPromise, failedOrder,
                   indexedEntryModules, nextEntryModuleIndex, chunkVars, warnings>>

\* the promise of loadEntryModule settles with the one of fetchModule
EntryFetched(b, i) ==
    /\ b \in DOMAIN batches
    /\ i \in DOMAIN batches[b].tasks
    /\ LET task == batches[b].tasks[i]
       IN  /\ Settled(task)
           /\ IF Rejected(task)
              THEN SetTask(b, i, Task("failed", "", "", loadError[task.id]))
              ELSE SetTask(b, i, Task("done", task.kind, task.id, ""))
    /\ UNCHANGED <<job, registryVars, moduleVars, taskVars, latestLoadModulesPromise,
                   failedOrder, indexedEntryModules, nextEntryModuleIndex, chunkVars, warnings>>

\* an element of indexedEntryModules
Indexed(index, id) == [index |-> index, module |-> id]

\* lines 163-170 with the index of the last reservation instead of the least
IndexEntryModuleLatest(list, id, moduleIndex) ==
    IF \E k \in DOMAIN list : list[k].module = id
    THEN [k \in DOMAIN list |->
            IF list[k].module = id THEN Indexed(moduleIndex, id) ELSE list[k]]
    ELSE Append(list, Indexed(moduleIndex, id))

\* lines 163-170: find the entry of the module, push it or lower its index
IndexEntryModule(list, id, moduleIndex) ==
    IF \E k \in DOMAIN list : list[k].module = id
    THEN [k \in DOMAIN list |->
            IF list[k].module = id
            THEN Indexed(Min(list[k].index, moduleIndex), id)
            ELSE list[k]]
    ELSE Append(list, Indexed(moduleIndex, id))

RECURSIVE IndexEntryModules(_, _, _)
\* the loop of lines 148-172 over the loaded entry modules
IndexEntryModules(list, ids, moduleIndex) ==
    IF ids = <<>> THEN list
    ELSE IndexEntryModules(IndexEntryModule(list, Head(ids), moduleIndex),
                           Tail(ids), moduleIndex + 1)

RECURSIVE InsertByIndex(_, _)
InsertByIndex(list, x) ==
    IF list = <<>> THEN <<x>>
    ELSE IF x.index > Head(list).index
    THEN <<Head(list)>> \o InsertByIndex(Tail(list), x)
    ELSE <<x>> \o list

\* the entry list left in completion order
SortByIndexSkipped(list) == list

RECURSIVE SortByIndex(_)
\* indexedEntryModules.sort with the comparator of lines 173-175
SortByIndex(list) ==
    IF list = <<>> THEN <<>>
    ELSE InsertByIndex(SortByIndex(Tail(list)), Head(list))

\* the modules the loadEntryModule calls of a batch resolved with
LoadedIds(b) == [i \in DOMAIN batches[b].tasks |-> batches[b].tasks[i].id]

\* the pairs addManualChunks hands to addModuleToManualChunk (lines 198-203)
ChunkPairs(b) ==
    [i \in DOMAIN batches[b].tasks |-> Item(batches[b].tasks[i].id, batches[b].items[i].alias)]

\* Promise.all(...) resolved: the .then callback of lines 147-177 or 197-204
BatchLoaded(b) ==
    /\ b \in DOMAIN batches
    /\ batches[b].state = "loading"
    /\ \A i \in DOMAIN batches[b].tasks : batches[b].tasks[i].pc = "done"
    /\ IF batches[b].type = "entries"
       THEN /\ indexedEntryModules' =
                  SortByIndex(IndexEntryModules(indexedEntryModules, LoadedIds(b),
                                                batches[b].firstEntryModuleIndex))
            /\ isUserDefinedEntryPoint' =
                  [id \in Ids |->
                     \/ isUserDefinedEntryPoint[id]
                     \/ batches[b].isUserDefined /\ \E i \in DOMAIN LoadedIds(b) : LoadedIds(b)[i] = id]
            /\ batches' = [batches EXCEPT ![b].state = "loaded"]
            /\ UNCHANGED <<manualChunkAlias, manualChunkModules, failedOrder>>
       ELSE LET st == AddAllToManualChunks(
                         ChunkState(manualChunkAlias, manualChunkModules, ""), ChunkPairs(b))
            IN  /\ manualChunkAlias' = st.manualChunkAlias
                /\ manualChunkModules' = st.manualChunkModules
                /\ batches' = [batches EXCEPT
                                  ![b].state = IF st.error = "" THEN "loaded" ELSE "failed",
                                  ![b].error = st.error]
                /\ failedOrder' = IF st.error = "" THEN failedOrder ELSE Append(failedOrder, b)
                /\ UNCHANGED <<indexedEntryModules, isUserDefinedEntryPoint>>
    /\ UNCHANGED <<job, registryVars, loadError, resolvedIds, resolvedIdsWrites, importers,
                   dynamicImporters, exportsAll, taskVars, latestLoadModulesPromise,
                   nextEntryModuleIndex, assigns, warnings>>

\* one loadEntryModule rejected: Promise.all rejects, the callback is skipped
BatchRejected(b) ==
    /\ b \in DOMAIN batches
    /\ batches[b].state = "loading"
    /\ \E i \in DOMAIN batches[b].tasks :
          /\ batches[b].tasks[i].pc = "failed"
          /\ batches' = [batches EXCEPT ![b].state = "failed",
                                        ![b].error = batches[b].tasks[i].error]
    /\ failedOrder' = Append(failedOrder, b)
    /\ UNCHANGED <<job, registryVars, moduleVars, taskVars, latestLoadModulesPromise,
                   indexedEntryModules, nextEntryModuleIndex, chunkVars, warnings>>

(***************************************************************************)
(* awaitLoadModulesPromise (lines 295-310).  The combined promise number k *)
(* is Promise.all([promise of batch k, combined promise k - 1]); number 0  *)
(* is the resolved promise of line 112.                                    *)
(***************************************************************************)
PromiseState(k) ==
    IF \E j \in 1..k : batches[j].state = "failed" THEN "rejected"
    ELSE IF \A j \in 1..k : batches[j].state = "loaded" THEN "resolved"
    ELSE "pending"

\* the reason of a rejected combined promise: the first rejection below it
PromiseError(k) ==
    LET first == CHOOSE n \in DOMAIN failedOrder :
                    /\ failedOrder[n] <= k
                    /\ \A o \in DOMAIN failedOrder : failedOrder[o] <= k => n <= o
    IN  batches[failedOrder[first]].error

\* getCombinedPromise after `await startingPromise` (lines 303-306)
CombinedSettled(c) ==
    /\ c \in DOMAIN batches
    /\ batches[c].callPc = "polling"
    /\ PromiseState(batches[c].startingPromise) # "pending"
    /\ IF PromiseState(batches[c].startingPromise) = "rejected"
       THEN batches' = [batches EXCEPT ![c].callPc = "rejected",
                                       ![c].callError = PromiseError(batches[c].startingPromise)]
       ELSE IF latestLoadModulesPromise # batches[c].startingPromise
       THEN batches' = [batches EXCEPT ![c].startingPromise = latestLoadModulesPromise]
       ELSE batches' = [batches EXCEPT ![c].callPc = "combined"]
    /\ UNCHANGED <<job, registryVars, moduleVars, taskVars, latestLoadModulesPromise,
                   failedOrder, indexedEntryModules, nextEntryModuleIndex, chunkVars, warnings>>

\* after `await getCombinedPromise()` (line 308) and after
\* `await loadNewModulesPromise` (line 309); addManualChunks returns the
\* promise of awaitLoadModulesPromise itself
LoadAwaited(c) ==
    /\ c \in DOMAIN batches
    /\ batches[c].callPc \in {"combined", "awaitNew"}
    /\ batches' = [batches EXCEPT ![c].callPc =
                      IF batches[c].callPc = "combined" THEN "awaitNew"
                      ELSE IF batches[c].type = "entries" THEN "returning"
                      ELSE "resolved"]
    /\ UNCHANGED <<job, registryVars, moduleVars, taskVars, latestLoadModulesPromise,
                   failedOrder, indexedEntryModules, nextEntryModuleIndex, chunkVars, warnings>>

\* this.indexedEntryModules.map(({ module }) => module)
EntryModules == [k \in DOMAIN indexedEntryModules |-> indexedEntryModules[k].module]

\* addEntryModules after its await (lines 178-183)
AddEntryModulesReturned(c) ==
    /\ c \in DOMAIN batches
    /\ batches[c].callPc = "returning"
    /\ batches' = [batches EXCEPT ![c].callPc = "resolved", ![c].entryModules = EntryModules]
    /\ UNCHANGED <<job, registryVars, moduleVars, taskVars, latestLoadModulesPromise,
                   failedOrder, indexedEntryModules, nextEntryModuleIndex, chunkVars, warnings>>

(***************************************************************************)
(* The specification.                                                      *)
(***************************************************************************)
Next ==
    \/ \E call \in EntryCalls(job) : AddEntryModules(call)
    \/ \E manualChunks \in ChunkCalls(job) : AddManualChunks(manualChunks)
    \/ \E fn \in ManualChunkFns(job) : AssignManualChunks(fn)
    \/ \E b \in DOMAIN batches : \E i \in DOMAIN batches[b].tasks : EntryResolved(b, i)
    \/ \E b \in DOMAIN batches : \E i \in DOMAIN batches[b].tasks : EntryFetched(b, i)
    \/ \E id \in Ids : AddModuleSourceDone(id)
    \/ \E id \in Ids, source \in Specifiers : StaticResolved(id, source)
    \/ \E id \in Ids, source \in Specifiers : StaticFetched(id, source)
    \/ \E id \in Ids : \E i \in DOMAIN dynTask[id] : DynamicHookDone(id, i)
    \/ \E id \in Ids : \E i \in DOMAIN dynTask[id] : DynamicResolved(id, i)
    \/ \E id \in Ids : \E i \in DOMAIN dynTask[id] : DynamicFetch(id, i)
    \/ \E id \in Ids : \E i \in DOMAIN dynTask[id] : DynamicFetched(id, i)
    \/ \E id \in Ids : FetchModuleDone(id)
    \/ \E id \in Ids : FetchModuleFailed(id)
    \/ \E b \in DOMAIN batches : BatchLoaded(b)
    \/ \E b \in DOMAIN batches : BatchRejected(b)
    \/ \E c \in DOMAIN batches : CombinedSettled(c)
    \/ \E c \in DOMAIN batches : LoadAwaited(c)
    \/ \E c \in DOMAIN batches : AddEntryModulesReturned(c)

Spec == Init /\ [][Next]_vars

\* the turns of the event loop: every continuation that is ready to resume.
\* The hooks and the file reads return, and the event loop runs every ready
\* continuation; the calls of the build (addEntryModules, addManualChunks,
\* assignManualChunks) are not forced
Step ==
    \/ \E b \in DOMAIN batches : \E i \in DOMAIN batches[b].tasks : EntryResolved(b, i)
    \/ \E b \in DOMAIN batches : \E i \in DOMAIN batches[b].tasks : EntryFetched(b, i)
    \/ \E id \in Ids : AddModuleSourceDone(id)
    \/ \E id \in Ids, source \in Specifiers : StaticResolved(id, source)
    \/ \E id \in Ids, source \in Specifiers : StaticFetched(id, source)
    \/ \E id \in Ids : \E i \in DOMAIN dynTask[id] : DynamicHookDone(id, i)
    \/ \E id \in Ids : \E i \in DOMAIN dynTask[id] : DynamicResolved(id, i)
    \/ \E id \in Ids : \E i \in DOMAIN dynTask[id] : DynamicFetch(id, i)
    \/ \E id \in Ids : \E i \in DOMAIN dynTask[id] : DynamicFetched(id, i)
    \/ \E id \in Ids : FetchModuleDone(id)
    \/ \E id \in Ids : FetchModuleFailed(id)
    \/ \E b \in DOMAIN batches : BatchLoaded(b)
    \/ \E b \in DOMAIN batches : BatchRejected(b)
    \/ \E c \in DOMAIN batches : CombinedSettled(c)
    \/ \E c \in DOMAIN batches : LoadAwaited(c)
    \/ \E c \in DOMAIN batches : AddEntryModulesReturned(c)

FairSpec == Spec /\ WF_vars(Step)

(***************************************************************************)
(* Properties.                                                             *)
(***************************************************************************)
InternalIds == {id \in Ids : modulesById[id] = "internal"}

\* a fetchModule call that found a registered Module left its load alone
ExistingModuleKept ==
    \A id \in Ids :
        modulesById[id] = "internal" =>
            /\ modulesById'[id] = "internal"
            /\ loadCount'[id] = loadCount[id]
            /\ isEntryPoint[id] => isEntryPoint'[id]

\* C1: for every id, under every interleaving of the fetchModule calls of
\* entries, static imports, dynamic imports and import cycles, addModuleSource
\* is started at most once; once a Module is registered under an id, a later
\* fetchModule call for the id starts no load, keeps the registered module
\* and can only raise isEntryPoint
C1_NoDuplicateLoads ==
    /\ [](\A id \in Ids : loadCount[id] <= 1)
    /\ [][ExistingModuleKept]_vars

\* /c was requested by /a (twice), by /b (statically and dynamically) and /a
\* by /c, closing the cycle, and all of them are loaded
C1_Witness ==
    /\ loadState["/a"] = "done" /\ loadState["/b"] = "done" /\ loadState["/c"] = "done"
    /\ Len(importers[<<"internal", "/c">>]) = 3
    /\ importers[<<"internal", "/a">>] = <<"/c">>
    /\ dynamicImporters[<<"internal", "/c">>] = <<"/b">>
    /\ loadCount["/c"] = 1

EntryBatches == {b \in DOMAIN batches : batches[b].type = "entries"}

RECURSIVE ReservedBefore(_)
\* the number of entry indices reserved by the batches before batch b
ReservedBefore(b) ==
    IF b = 1 THEN 0
    ELSE ReservedBefore(b - 1)
         + (IF batches[b - 1].type = "entries" THEN Len(batches[b - 1].items) ELSE 0)

RECURSIVE SubmittedEntries(_)
\* the modules of the entry batches 1..b in submission order
SubmittedEntries(b) ==
    IF b = 0 THEN <<>>
    ELSE SubmittedEntries(b - 1)
         \o (IF batches[b].type = "entries" THEN LoadedIds(b) ELSE <<>>)

Distinct(list) == \A i, k \in DOMAIN list : list[i] = list[k] => i = k

AllLoaded == \A b \in DOMAIN batches : batches[b].state = "loaded"

\* C2: batch K reserves the index range right after the one of batch K-1;
\* once all batches have finished and their entries are distinct, the entry
\* list is the entries in (batch, position) order with those indices, whatever
\* the order the loads completed in; a call that resolves returns every entry
\* of a batch that was submitted while its own batch was still loading
C2_EntryOrder ==
    /\ \A b \in EntryBatches : batches[b].firstEntryModuleIndex = ReservedBefore(b)
    /\ LET all == SubmittedEntries(Len(batches))
       IN  AllLoaded /\ Distinct(all) =>
              indexedEntryModules = [n \in DOMAIN all |-> Indexed(n - 1, all[n])]
    /\ \A c \in EntryBatches : \A k \in EntryBatches :
          /\ batches[c].callPc = "resolved"
          /\ c \in batches[k].loadingAtSubmit
          => \A i \in DOMAIN batches[k].tasks :
                \E n \in DOMAIN batches[c].entryModules :
                    batches[c].entryModules[n] = batches[k].tasks[i].id

\* B1 = [e1, e2], then B2 = [e3] while B1 was loading: both calls returned
\* [e1, e2, e3]
C2_Witness ==
    /\ job = "entries" /\ Len(batches) = 2
    /\ 1 \in batches[2].loadingAtSubmit
    /\ indexedEntryModules = <<Indexed(0, "/e1"), Indexed(1, "/e2"), Indexed(2, "/e3")>>
    /\ batches[1].callPc = "resolved" /\ batches[1].entryModules = <<"/e1", "/e2", "/e3">>
    /\ batches[2].callPc = "resolved" /\ batches[2].entryModules = <<"/e1", "/e2", "/e3">>

\* every batch has finished and every registered Module is loaded and linked
Quiescent ==
    /\ AllLoaded
    /\ \A id \in InternalIds : loadState[id] = "done"

\* C3: at the moment a call of addEntryModules or addManualChunks resolves,
\* every batch submitted up to that moment has finished and no Module of the
\* registry is still loading
C3_QuiescentAtResolve ==
    [][\A c \in DOMAIN batches :
          batches[c].callPc # "resolved" /\ batches'[c].callPc = "resolved" => Quiescent']_vars

\* the indices reserved for module id by the entry batches that have finished
ReservedFor(id) ==
    UNION {{batches[b].firstEntryModuleIndex + i - 1 :
               i \in {n \in DOMAIN batches[b].tasks : batches[b].tasks[n].id = id}} :
           b \in {k \in EntryBatches : batches[k].state = "loaded"}}

\* C4: an entry submitted several times, in one batch or in several, resolves
\* to one module instance, appears once in the entry list, and its index is
\* the least index reserved for it by the batches that have finished
C4_ReAddIdempotent ==
    /\ Distinct(EntryModules)
    /\ \A n \in DOMAIN indexedEntryModules :
          LET entry == indexedEntryModules[n]
          IN  /\ ReservedFor(entry.module) # {}
              /\ entry.index \in ReservedFor(entry.module)
              /\ \A index \in ReservedFor(entry.module) : entry.index <= index
    /\ \A b \in EntryBatches : \A k \in EntryBatches :
          \A i \in DOMAIN batches[b].tasks : \A n \in DOMAIN batches[k].tasks :
             /\ batches[b].items[i].id = batches[k].items[n].id
             /\ batches[b].tasks[i].pc = "done" /\ batches[k].tasks[n].pc = "done"
             => /\ batches[b].tasks[i].id = batches[k].tasks[n].id
                /\ loadCount[batches[b].tasks[i].id] = 1

\* the batch [e1, e2] was submitted twice and both batches have finished
C4_Witness ==
    /\ job = "entries" /\ Len(batches) = 2 /\ AllLoaded
    /\ batches[1].items = batches[2].items
    /\ Len(batches[1].items) = 2
    /\ indexedEntryModules = <<Indexed(0, "/e1"), Indexed(1, "/e2")>>

\* C5: for every module M and specifier s, a resolution is stored in
\* M.resolvedIds[s] at most once, under every interleaving of the static and
\* the dynamic callbacks of M
C5_ResolvedIdsWriteOnce ==
    \A id \in Ids : \A s \in Specifiers : Len(resolvedIdsWrites[id][s]) <= 1

IsSorted(list) == \A i, k \in DOMAIN list : i < k => ~LexLess(list[k], list[i])

\* C6: in every reachable state the importers list and the dynamicImporters
\* list of every module are in ascending order of their UTF-16 code units
C6_ImportersSorted ==
    \A o \in Objects : IsSorted(importers[o]) /\ IsSorted(dynamicImporters[o])

\* /b was appended to the importers of /c before /a: the sort moved /a ahead
C6_Witness ==
    /\ depTask["/b"]["./c"].pc = "done"
    /\ depTask["/a"]["./c"].pc = "done"
    /\ depTask["/a"]["./c.js"].pc = "fetchReady"
    /\ importers[<<"internal", "/c">>] = <<"/a", "/b">>
    /\ resolvedIdsWrites["/b"]["./c"] # <<>>
    /\ loadState["/b"] = "deps" /\ loadState["/a"] = "deps"

\* C7: no module id occurs twice in the importers list or in the
\* dynamicImporters list of a module
C7_ImportersNoDuplicates ==
    \A o \in Objects : Distinct(importers[o]) /\ Distinct(dynamicImporters[o])

\* C8: at most one module object is ever registered under an id
C8_OneInstancePerId ==
    \A id \in Ids : Len(registered[id]) <= 1

\* once a module's alias is set it keeps it
AliasKept ==
    \A id \in Ids : manualChunkAlias[id] # "" => manualChunkAlias'[id] = manualChunkAlias[id]

\* addModuleToManualChunk with an alias other than the module's throws and
\* changes neither the alias nor the lists
ConflictRefused ==
    \A id \in Ids : \A alias \in Aliases :
        manualChunkAlias[id] # "" /\ manualChunkAlias[id] # alias =>
            AddModuleToManualChunk(ChunkState(manualChunkAlias, manualChunkModules, ""), alias, id)
               = ChunkState(manualChunkAlias, manualChunkModules, "CANNOT_ASSIGN_MODULE_TO_CHUNK")

\* C9: a manualChunkAlias that is not null never changes; assigning another
\* alias, through addManualChunks or assignManualChunks, fails with
\* CANNOT_ASSIGN_MODULE_TO_CHUNK and that assignment leaves the alias of the
\* module and the manualChunkModules lists as they were
C9_AliasStable ==
    /\ [][AliasKept]_vars
    /\ [](ConflictRefused)
    /\ [](\A b \in DOMAIN batches :
             batches[b].type = "chunks" /\ batches[b].state = "failed"
             /\ (\A i \in DOMAIN batches[b].tasks : batches[b].tasks[i].pc = "done")
             => batches[b].error = "CANNOT_ASSIGN_MODULE_TO_CHUNK")
    /\ [](\A n \in DOMAIN assigns :
             assigns[n].error \in {"", "CANNOT_ASSIGN_MODULE_TO_CHUNK"})

\* /p got alias a from one addManualChunks call; a second call and an
\* assignManualChunks call that wanted b for it both failed
C9_Witness ==
    /\ manualChunkAlias["/p"] = "a"
    /\ manualChunkModules["b"] = <<>>
    /\ \E b \in DOMAIN batches :
          batches[b].type = "chunks" /\ batches[b].error = "CANNOT_ASSIGN_MODULE_TO_CHUNK"
    /\ \E n \in DOMAIN assigns : assigns[n].error = "CANNOT_ASSIGN_MODULE_TO_CHUNK"

\* an assignManualChunks call whose function gives every registered Module
\* the alias it already has
SameAliasAssign ==
    /\ Len(assigns') = Len(assigns) + 1
    /\ InternalIds # {}
    /\ \A id \in InternalIds :
          /\ manualChunkAlias[id] # ""
          /\ GetManualChunk(assigns'[Len(assigns')].fn, id) = manualChunkAlias[id]
    /\ \E b \in DOMAIN batches :
          batches[b].type = "chunks" /\ batches[b].callPc = "resolved"

\* C10: after addManualChunks({a: [id]}) has completed, assignManualChunks(fn)
\* with fn(id) = a changes neither the aliases nor the manualChunkModules lists
C10_SameAliasNoOp ==
    [][SameAliasAssign =>
          /\ manualChunkAlias' = manualChunkAlias
          /\ manualChunkModules' = manualChunkModules]_vars

\* the resolveId hooks answered `false` or an external object for entry i of
\* batch b
ExternalAnswer(b, i) ==
    LET resolveIdResult == ResolveIdHook(batches[b].items[i].id, NoImporter)
    IN  \/ resolveIdResult.type = "false"
        \/ resolveIdResult.type = "object" /\ resolveIdResult.external

\* the external entries <<b, i>> whose loadEntryModule call has resumed
ExternalEntries ==
    UNION {{<<b, i>> : i \in {n \in DOMAIN batches[b].tasks :
                                  /\ ExternalAnswer(b, n)
                                  /\ batches[b].tasks[n].pc # "resolving"}} :
           b \in DOMAIN batches}

\* the loadEntryModule call of an external entry has failed with
\* ENTRY_CANNOT_BE_EXTERNAL, its batch never runs its callback (nothing of it
\* reaches the entry list or the manual chunks) and its call never resolves
EntryRefused ==
    \A bi \in ExternalEntries :
        LET b == bi[1]
            task == batches[b].tasks[bi[2]]
        IN  /\ task.pc = "failed" /\ task.error = "ENTRY_CANNOT_BE_EXTERNAL"
            /\ batches[b].state \in {"loading", "failed"}
            /\ batches[b].callPc \in {"polling", "rejected"}
            /\ batches[b].type = "entries" =>
                  \A n \in DOMAIN indexedEntryModules :
                      indexedEntryModules[n].index \notin
                          batches[b].firstEntryModuleIndex
                          .. (batches[b].firstEntryModuleIndex + Len(batches[b].items) - 1)

\* the step that resolves an external entry registers nothing
NothingRegistered ==
    \A b \in DOMAIN batches : \A i \in DOMAIN batches[b].tasks :
        /\ ExternalAnswer(b, i)
        /\ batches[b].tasks[i].pc = "resolving"
        /\ batches'[b].tasks[i].pc # "resolving"
        => UNCHANGED <<modulesById, registryKeys, registered, loadState, loadCount>>

\* C11: whenever the resolution of an id submitted through addEntryModules or
\* addManualChunks is `false` or an object with external set, the call fails
\* with ENTRY_CANNOT_BE_EXTERNAL, no module is registered for that id by this
\* attempt, and the id is not added to the entry list
C11_EntryCannotBeExternal ==
    /\ [](EntryRefused)
    /\ [](\A bi \in ExternalEntries :
             batches[bi[1]].callPc = "rejected"
             => batches[bi[1]].callError = "ENTRY_CANNOT_BE_EXTERNAL")
    /\ [][NothingRegistered]_vars

\* the errors of the loadEntryModule calls that failed in the batches 1..k
\* and of the callbacks of these batches that threw
FailuresUpTo(k) ==
    UNION {{batches[b].tasks[i].error :
               i \in {n \in DOMAIN batches[b].tasks : batches[b].tasks[n].pc = "failed"}}
           \cup ({batches[b].error} \ {""}) :
           b \in 1..k}

\* C11 (amended): the loadEntryModule call of such an id fails with
\* ENTRY_CANNOT_BE_EXTERNAL, no module is registered for the id by this
\* attempt, the batch never adds anything to the entry list and its call never
\* resolves; the call rejects with the first failure among the batches it
\* waited for, which is ENTRY_CANNOT_BE_EXTERNAL when they had no other failure
C11_EntryRefused ==
    /\ [](EntryRefused)
    /\ [](\A bi \in ExternalEntries :
             LET call == batches[bi[1]]
             IN  call.callPc = "rejected" =>
                    /\ call.callError \in FailuresUpTo(call.startingPromise)
                    /\ FailuresUpTo(call.startingPromise) = {"ENTRY_CANNOT_BE_EXTERNAL"}
                          => call.callError = "ENTRY_CANNOT_BE_EXTERNAL")
    /\ [][NothingRegistered]_vars

\* addManualChunks({b: [off]}) was rejected with ENTRY_CANNOT_BE_EXTERNAL, and
\* addEntryModules([ext, off, nowhere]) failed with it, with nothing registered
C11_Witness ==
    /\ Len(batches) = 2
    /\ batches[1].type = "chunks" /\ batches[2].type = "entries"
    /\ batches[1].callPc = "rejected" /\ batches[1].callError = "ENTRY_CANNOT_BE_EXTERNAL"
    /\ batches[2].callPc = "rejected" /\ batches[2].error = "ENTRY_CANNOT_BE_EXTERNAL"
    /\ \A i \in DOMAIN batches[2].tasks : batches[2].tasks[i].pc = "failed"
    /\ registryKeys = <<>>

\* the static imports <<M, s>> the resolver answered null for, once the
\* callback of M for s has resumed from `await this.resolveId`
UnresolvedImports ==
    {ms \in Ids \X Specifiers :
        /\ ms[2] \in Sources(ms[1])
        /\ ThisResolveId(ms[2], ms[1]) = NullResolution
        /\ depTask[ms[1]][ms[2]].pc \notin {"none", "resolving"}}

\* a relative one failed the load of M with UNRESOLVED_IMPORT and stored nothing
RelativeIsFatal ==
    \A ms \in UnresolvedImports :
        IsRelative(ms[2]) =>
            /\ depTask[ms[1]][ms[2]] = Task("failed", "", "", "UNRESOLVED_IMPORT")
            /\ resolvedIds[ms[1]][ms[2]] = Unset
            /\ resolvedIdsWrites[ms[1]][ms[2]] = <<>>
            /\ loadState[ms[1]] \in {"deps", "failed"}
            /\ \A n \in DOMAIN registryKeys : registryKeys[n] # ms[2]
            /\ \A w \in warnings : w[2] # ms[2]

\* a bare one was warned about and became the external module of that name
BareIsExternal ==
    \A ms \in UnresolvedImports :
        ~IsRelative(ms[2]) =>
            /\ <<"UNRESOLVED_IMPORT_TREATED_AS_EXTERNAL", ms[2], ms[1]>> \in warnings
            /\ resolvedIds[ms[1]][ms[2]] = ResolvedId(ms[2], TRUE)
            /\ modulesById[ms[2]] = "external"
            /\ depTask[ms[1]][ms[2]].pc \in {"fetchReady", "done"}
            /\ depTask[ms[1]][ms[2]].kind = "external" /\ depTask[ms[1]][ms[2]].id = ms[2]
            /\ depTask[ms[1]][ms[2]].pc = "done" =>
                  \E n \in DOMAIN importers[<<"external", ms[2]>>] :
                      importers[<<"external", ms[2]>>][n] = ms[1]
            /\ loadState[ms[1]] = "done" =>
                  \E n \in DOMAIN importers[<<"external", ms[2]>>] :
                      importers[<<"external", ms[2]>>][n] = ms[1]

\* the step in which the callback of a relative unresolved import resumes
\* registers no module
UnresolvedRegistersNothing ==
    \A id \in Ids : \A s \in Sources(id) :
        /\ IsRelative(s)
        /\ ThisResolveId(s, id) = NullResolution
        /\ depTask[id][s].pc = "resolving" /\ depTask'[id][s].pc # "resolving"
        => UNCHANGED <<modulesById, registryKeys, registered>>

\* C12: when the resolver returns null for an import of module M, a relative
\* specifier makes the load fail with UNRESOLVED_IMPORT (nothing is written to
\* M.resolvedIds and no module is registered for it), while a bare specifier s
\* produces the warning UNRESOLVED_IMPORT_TREATED_AS_EXTERNAL, loading
\* continues, and the registry gains an external module whose id is exactly s
\* with M in its importers
C12_UnresolvedImportPolicy ==
    /\ [](RelativeIsFatal)
    /\ [](BareIsExternal)
    /\ [][UnresolvedRegistersNothing]_vars

\* /n failed with UNRESOLVED_IMPORT for ./missing, and /m is loaded with the
\* external module lodash it was warned about
C12_Witness ==
    /\ loadState["/n"] = "failed" /\ loadError["/n"] = "UNRESOLVED_IMPORT"
    /\ loadState["/m"] = "done"
    /\ modulesById["lodash"] = "external"
    /\ importers[<<"external", "lodash">>] = <<"/m">>
    /\ <<"UNRESOLVED_IMPORT_TREATED_AS_EXTERNAL", "lodash", "/m">> \in warnings

\* the callback of module id for the static import s resumes with an external
\* resolution whose id is registered as an internal module
InternalMadeExternal(id, s) ==
    /\ s \in Sources(id)
    /\ depTask[id][s].pc = "resolving" /\ depTask'[id][s].pc # "resolving"
    /\ LET handled == HandleResolveId(ThisResolveId(s, id), s, id)
       IN  /\ handled.error = ""
           /\ handled.resolved.external
           /\ modulesById[handled.resolved.id] = "internal"

\* that call of fetchResolvedDependency throws and changes neither the
\* registry nor any importers list
InternalIdRefused ==
    \A id \in Ids : \A s \in Specifiers :
        InternalMadeExternal(id, s) =>
            /\ depTask'[id][s] = Task("failed", "", "", "INTERNAL_ID_CANNOT_BE_EXTERNAL")
            /\ UNCHANGED <<modulesById, registryKeys, registered, importers, dynamicImporters>>

\* after the refusal the id stays internal and the importer is not listed
InternalIdKept ==
    \A id \in Ids : \A s \in Specifiers :
        depTask[id][s].error = "INTERNAL_ID_CANNOT_BE_EXTERNAL" =>
            LET target == resolvedIds[id][s].id
            IN  /\ modulesById[target] = "internal"
                /\ registered[target] # <<>>
                /\ registered[target][Len(registered[target])] = "internal"
                /\ \A n \in DOMAIN importers[<<"internal", target>>] :
                       importers[<<"internal", target>>][n] # id
                /\ loadState[id] \in {"deps", "failed"}

\* C13: if an id is registered as an internal module and a later import
\* resolves to the same id with external = true, fetchResolvedDependency fails
\* with INTERNAL_ID_CANNOT_BE_EXTERNAL, the registry still maps the id to the
\* internal module, and the importer is not appended to that module's importers
C13_InternalIdCannotBeExternal ==
    /\ [][InternalIdRefused]_vars
    /\ [](InternalIdKept)

\* the entry x registered /x as a Module before the import "x" of /m resolved
\* to the external /x: /m failed and /x is loaded with no importer
C13_Witness ==
    /\ depTask["/m"]["x"] = Task("failed", "", "", "INTERNAL_ID_CANNOT_BE_EXTERNAL")
    /\ loadState["/m"] = "failed" /\ loadError["/m"] = "INTERNAL_ID_CANNOT_BE_EXTERNAL"
    /\ modulesById["/x"] = "internal" /\ loadState["/x"] = "done"
    /\ registered["/x"] = <<"internal">>
    /\ importers[<<"internal", "/x">>] = <<>>

\* the names module id declares itself, without "default"
OwnNames(id) == Exports(id) \ {"default"}

\* the k-th `export *` source of module id was resolved to an internal module
ResolvedInternal(id, k) == ~resolvedIds[id][ExportAllSources(id)[k]].external

\* what the module of that source offers under name n, "" for nothing
Offered(id, k, n) == exportsAll[resolvedIds[id][ExportAllSources(id)[k]].id][n]

\* the internal `export *` sources of module id that offer name n
Offering(id, n) ==
    {k \in DOMAIN ExportAllSources(id) : ResolvedInternal(id, k) /\ Offered(id, k, n) # ""}

\* the step that links module id leaves in its exportsAll: its own names,
\* mapped to id; every other name from the first internal `export *` source
\* that offers it; nothing else; with one warning for every clash
LinkedRight(id) ==
    /\ \A n \in OwnNames(id) : exportsAll'[id][n] = id
    /\ exportsAll'[id]["default"] = ""
    /\ \A n \in ExportNames \ (OwnNames(id) \cup {"default"}) :
          IF Offering(id, n) = {}
          THEN exportsAll'[id][n] = ""
          ELSE \E k \in Offering(id, n) :
                  /\ \A j \in Offering(id, n) : k <= j
                  /\ exportsAll'[id][n] = Offered(id, k, n)
    /\ \A n \in ExportNames :
          <<"NAMESPACE_CONFLICT", n, id>> \in warnings' \ warnings
          <=> \E k \in Offering(id, n) :
                 n \in OwnNames(id) \/ \E j \in Offering(id, n) : j < k

\* C14: after module Y is linked, every own export name n other than
\* "default" has Y.exportsAll[n] = Y.id; a name also offered by an internal
\* `export *` source never overrides an entry already present (own export, or
\* an earlier export-all source) and each such clash emits a non-fatal
\* NAMESPACE_CONFLICT warning; external export-all sources contribute nothing;
\* and no exportsAll map ever contains the key "default"
C14_ExportLinking ==
    /\ [][\A id \in Ids : loadState[id] = "deps" /\ loadState'[id] = "done" => LinkedRight(id)]_vars
    /\ [](\A id \in Ids : exportsAll[id]["default"] = "")
    /\ [](\A id \in Ids : loadState[id] = "done" => \A n \in OwnNames(id) : exportsAll[id][n] = id)

\* C16: in every reachable state, every id stored as the target of some
\* module's resolvedIds entry and every id listed in some module's importers
\* or dynamicImporters is a key of the registry
C16_ReferentialIntegrity ==
    /\ \A id \in Ids : \A s \in Specifiers :
          resolvedIds[id][s] # Unset => RegistryHas(resolvedIds[id][s].id)
    /\ \A o \in Objects :
          /\ \A n \in DOMAIN importers[o] : RegistryHas(importers[o][n])
          /\ \A n \in DOMAIN dynamicImporters[o] : RegistryHas(dynamicImporters[o][n])

\* the internal modules the `export *` sources of module id name
ExportAllModules(id) ==
    {resolvedIds[id][ExportAllSources(id)[k]].id : k \in DOMAIN ExportAllSources(id)}
    \cap InternalIds

\* the step that links module id finds its `export *` modules linked
LinkedAfterSources ==
    \A id \in Ids :
        loadState[id] = "deps" /\ loadState'[id] = "done" =>
            \A target \in ExportAllModules(id) : loadState[target] = "done"

\* every name of an `export *` module is a name of the module that re-exports it
NamesReExported ==
    \A id \in InternalIds : \A target \in ExportAllModules(id) :
        \A n \in ExportNames : exportsAll[target][n] # "" => exportsAll[id][n] # ""

\* C17: whenever the export linker of module M reads the exportsAll of an
\* internal module X named by one of M's `export *` sources, X's own export
\* linking has already completed, for every graph shape and every
\* interleaving; consequently after quiescence every name in X.exportsAll is
\* also a key of M.exportsAll
C17_ExportLinkOrder ==
    /\ [][LinkedAfterSources]_vars
    /\ [](Quiescent /\ (\A c \in DOMAIN batches : batches[c].callPc = "resolved")
            => NamesReExported)

\* the diamond: /b was linked while /c, first requested by /a, was still
\* loading, and after quiescence /b re-exports none of the names of /c
C17_Witness ==
    /\ Quiescent /\ batches # <<>>
    /\ \A c \in DOMAIN batches : batches[c].callPc = "resolved"
    /\ loadState["/b"] = "done" /\ loadState["/c"] = "done"
    /\ exportsAll["/c"]["bar"] = "/c"
    /\ exportsAll["/b"]["bar"] = ""

SomeBatchFailed == \E b \in DOMAIN batches : batches[b].state = "failed"

\* no call resolves once the load of a batch has failed
NoResolveAfterFailure ==
    \A c \in DOMAIN batches :
        /\ SomeBatchFailed
        /\ batches[c].callPc # "resolved"
        => batches'[c].callPc # "resolved"

\* the entries of every batch that loaded are in the entry list, whatever
\* became of its call
LoadedEntriesApplied ==
    \A b \in EntryBatches :
        batches[b].state = "loaded" =>
            \A i \in DOMAIN batches[b].tasks :
                \E n \in DOMAIN EntryModules : EntryModules[n] = batches[b].tasks[i].id

\* C19: once the load of any batch has failed with a fatal error, the
\* latest-load future stays rejected, so every addEntryModules or
\* addManualChunks call that is pending at that time or submitted afterwards
\* also rejects, even when all of its own entries load successfully; the
\* entry-list updates of such a successfully loaded batch are nevertheless
\* applied
C19_FailureSticky ==
    /\ [](SomeBatchFailed => PromiseState(latestLoadModulesPromise) = "rejected")
    /\ [][NoResolveAfterFailure]_vars
    /\ [](LoadedEntriesApplied)

\* module id is in the list of alias
InChunk(alias, id) ==
    \E n \in DOMAIN manualChunkModules[alias] : manualChunkModules[alias][n] = id

\* C20: in every reachable state, every module contained in
\* manualChunkModules[a] has manualChunkAlias = a, every module whose
\* manualChunkAlias is a non-null a is contained in manualChunkModules[a], and
\* therefore no module is contained in the lists of two different aliases
C20_ChunkMapConsistent ==
    /\ \A alias \in Aliases : \A id \in Ids :
          InChunk(alias, id) <=> manualChunkAlias[id] = alias
    /\ \A id \in Ids : \A a1, a2 \in Aliases :
          InChunk(a1, id) /\ InChunk(a2, id) => a1 = a2

\* assignManualChunks put /p into the list of a while the batch of
\* addManualChunks({b: [p]}) was loading, and that batch then failed on /p
C20_Witness ==
    /\ manualChunkAlias["/p"] = "a"
    /\ manualChunkModules["a"] = <<"/p">>
    /\ manualChunkModules["b"] = <<>>
    /\ Len(batches) = 1
    /\ assigns # <<>> /\ assigns[1].error = ""
    /\ \E b \in DOMAIN batches : batches[b].error = "CANNOT_ASSIGN_MODULE_TO_CHUNK"

\* the modules whose load module id waits for: the pending promises of
\* fetchModule its callbacks await
WaitsFor(id) ==
    {task.id : task \in {w \in TasksOf(id) :
                            w.pc = "fetchOwn" /\ loadState[w.id] \notin {"done", "failed"}}}

RECURSIVE WaitsForAll(_, _)
\* the modules reached from a set of modules in at most n steps of WaitsFor
WaitsForAll(ids, n) ==
    IF n = 0 THEN ids
    ELSE WaitsForAll(ids \cup UNION {WaitsFor(id) : id \in ids}, n - 1)

\* no load waits, directly or through other loads, for itself
NeverWaitsOnItself ==
    \A id \in InternalIds :
        loadState[id] = "deps" =>
            id \notin WaitsForAll(WaitsFor(id), Cardinality(InternalIds))

\* the promise of call c has settled
Settles(c) == batches[c].callPc \in {"resolved", "rejected"}

\* C18: if finitely many batches are submitted, the module graph is finite
\* (possibly with import cycles) and every hook call and file read eventually
\* returns, then under fair scheduling every addEntryModules and
\* addManualChunks call eventually settles; a cycle-closing import is answered
\* with the already registered, still-loading module and never waits on
\* itself, and the quiescence polling loop stops once no new batch arrives.
\* A settled call stays settled and the calls are finitely many, so this is:
\* from some moment on every call that was made is settled
C18_Terminates ==
    /\ [](NeverWaitsOnItself)
    /\ <>[](\A c \in DOMAIN batches : Settles(c))

\* the import ./a of /c closed the cycle while /a was loading, and the call
\* that loaded the cycle has resolved
C18_Witness ==
    /\ job = "graph" /\ Len(batches) = 1
    /\ batches[1].callPc = "resolved"
    /\ batches[1].items[1].id = "a"
    /\ depTask["/c"]["./a"] = Task("done", "internal", "/a", "")
    /\ depTask["/a"]["./c"] = Task("done", "internal", "/c", "")
    /\ loadState["/a"] = "done" /\ loadState["/c"] = "done"

\* a run has ended: every call has settled and no continuation is left
RunEnded ==
    /\ batches # <<>>
    /\ \A c \in DOMAIN batches :
          /\ batches[c].callPc \in {"resolved", "rejected"}
          /\ batches[c].state # "loading"
          /\ \A i \in DOMAIN batches[c].tasks : batches[c].tasks[i].pc \in {"done", "failed"}
    /\ \A id \in Ids :
          /\ loadState[id] \in {"none", "done", "failed"}
          /\ \A s \in Specifiers : depTask[id][s].pc \in {"none", "done", "failed"}
          /\ \A i \in DOMAIN dynTask[id] : dynTask[id][i].pc \in {"done", "failed"}

\* the run of the one batch [m, x], with the hook answers of the model
RunOfMX ==
    /\ job = "kinds" /\ Len(batches) = 1
    /\ batches[1].items = <<Item("m", ""), Item("x", "")>>

\* the outcome of the run of [m, x] in which the import "x" of /m is resolved
\* before the entry x: the call resolves, /x is a Module, both are entries
OutcomeImportFirst ==
    /\ batches[1].callPc = "resolved"
    /\ [id \in {"/m", "/x", "lodash"} |-> modulesById[id]]
          = [id \in {"/m", "/x", "lodash"} |->
                IF id = "lodash" THEN "external" ELSE "internal"]
    /\ EntryModules = <<"/m", "/x">>
    /\ importers[<<"external", "/x">>] = <<"/m">>
    /\ importers[<<"internal", "/x">>] = <<>>
    /\ importers[<<"external", "lodash">>] = <<"/m">>
    /\ \A o \in Objects : dynamicImporters[o] = <<>>

\* C15: for a fixed sequence of submitted batches and fixed answers of the
\* resolve and load hooks, two runs that differ only in the order in which
\* suspended loads complete end in the same outcome: the same success or
\* failure of each call, the same registry kind for every id, the same entry
\* list, and the same importers and dynamicImporters list for every module.
\* Stated for the batch [m, x]: every run of it ends in the outcome of the run
\* C15_Witness reaches
C15_Deterministic == RunEnded /\ RunOfMX => OutcomeImportFirst

\* one run of [m, x] has ended in that outcome
C15_Witness == RunEnded /\ RunOfMX /\ OutcomeImportFirst

====
